---- MODULE Spec2Model ----
(***************************************************************************)
(* Model of kpack's build completion step: cmd/completion main (credential *)
(* merge, metadata retrieval, completion record, signing dispatch) and     *)
(* pkg/cnb RemoteMetadataRetriever.                                        *)
(*                                                                         *)
(* Strings are sequences of tokens: the separators "=", ":", "/", "@" are  *)
(* tokens of their own and every other token is a word without separators, *)
(* so that splitting, joining and formatting are computed, not assumed.    *)
(* A Go error is the sequence of its messages, outermost first; nil is the *)
(* empty sequence.                                                         *)
(***************************************************************************)
EXTENDS Integers, Sequences, FiniteSets, TLC

\* ---------------------------------------------------------------- bounds
MaxTags == 2
MaxCredFlags == 2

\* ------------------------------------------------------------- strings
Nil == <<>>
EmptyStr == <<>>

Wrap(err, msg) == <<msg>> \o err

RECURSIVE SplitFrom(_, _, _, _)
SplitFrom(s, sep, i, cur) ==
    IF i > Len(s) THEN <<cur>>
    ELSE IF s[i] = sep THEN <<cur>> \o SplitFrom(s, sep, i + 1, <<>>)
    ELSE SplitFrom(s, sep, i + 1, Append(cur, s[i]))

\* strings.Split(s, sep) for a one-token separator
Split(s, sep) == SplitFrom(s, sep, 1, <<>>)

RECURSIVE Join(_, _)
Join(parts, sep) ==
    IF Len(parts) = 0 THEN <<>>
    ELSE IF Len(parts) = 1 THEN parts[1]
    ELSE parts[1] \o <<sep>> \o Join(Tail(parts), sep)

Contains(s, tok) == \E i \in 1..Len(s) : s[i] = tok

\* strings.SplitN(s, sep, 2)
SplitN2(s, sep) ==
    IF Contains(s, sep)
    THEN LET k == CHOOSE i \in 1..Len(s) : s[i] = sep /\ \A j \in 1..(i - 1) : s[j] # sep
         IN <<SubSeq(s, 1, k - 1), SubSeq(s, k + 1, Len(s))>>
    ELSE <<s>>

\* fmt.Sprintf("%s@%s", a, b)
SprintfAt(a, b) == a \o <<"@">> \o b

SeqsUpTo(S, n) == UNION {[1..k -> S] : k \in 0..n}

\* ------------------------------------------- name.ParseReference (ggcr)
DottedTokens == {"gcr.io", "reg.io", "index.docker.io"}
HexTokens == {"0fd6", "abc"}
DefaultRegistry == <<"index.docker.io">>
DefaultTag == <<"latest">>
BadRef == [ok |-> FALSE, kind |-> "none", repo |-> <<>>, ident |-> <<>>]

IsRegistryPart(p) == Contains(p, ":") \/ \E i \in 1..Len(p) : p[i] \in DottedTokens

BadRepository == [ok |-> FALSE, name |-> <<>>]

\* checkRepository, NewRegistry and Repository.Name() on the two halves
RepositoryOf(registry, repo) ==
    IF /\ Len(repo) > 0 /\ ~Contains(repo, "@") /\ ~Contains(repo, ":")
       /\ ~Contains(registry, "@") /\ ~Contains(registry, "/")
    THEN [ok |-> TRUE,
          name |-> (IF registry = <<>> THEN DefaultRegistry ELSE registry) \o <<"/">>
                   \o (IF registry = <<>> /\ ~Contains(repo, "/")
                       THEN <<"library", "/">> \o repo ELSE repo)]
    ELSE BadRepository

\* the first part is the registry iff it holds a '.' or a ':'
NewRepositoryParts(base, parts) ==
    IF Len(parts) = 2 /\ IsRegistryPart(parts[1])
    THEN RepositoryOf(parts[1], parts[2])
    ELSE RepositoryOf(<<>>, base)

\* name.NewRepository followed by Repository.Name()
NewRepository(base) ==
    IF Len(base) = 0 THEN BadRepository
    ELSE NewRepositoryParts(base, SplitN2(base, "/"))

\* checkTag, and the tag's Context().String() and Identifier()
TagOf(tag, r) ==
    IF (tag = <<>> \/ (Len(tag) = 1 /\ tag[1] # "@")) /\ r.ok
    THEN [ok |-> TRUE, kind |-> "tag", repo |-> r.name,
          ident |-> IF tag = <<>> THEN DefaultTag ELSE tag]
    ELSE BadRef

\* the last ':' part is the tag unless it holds a '/' (a port, not a tag)
NewTagParts(s, parts) ==
    IF Len(parts) > 1 /\ ~Contains(parts[Len(parts)], "/")
    THEN TagOf(parts[Len(parts)], NewRepository(Join(SubSeq(parts, 1, Len(parts) - 1), ":")))
    ELSE TagOf(<<>>, NewRepository(s))

\* name.NewTag
NewTag(s) == NewTagParts(s, Split(s, ":"))

IsDigest(d) == Len(d) = 3 /\ d[1] = "sha256" /\ d[2] = ":" /\ d[3] \in HexTokens

\* checkDigest, and the digest's Context().String() and Identifier()
DigestOf(digest, r) ==
    IF IsDigest(digest) /\ r.ok
    THEN [ok |-> TRUE, kind |-> "digest", repo |-> r.name, ident |-> digest]
    ELSE BadRef

\* the base of a digest reference may carry a tag, which is dropped
DigestBase(base, t) == IF t.ok THEN t.repo ELSE base

NewDigestParts(parts) ==
    IF Len(parts) # 2 THEN BadRef
    ELSE DigestOf(parts[2], NewRepository(DigestBase(parts[1], NewTag(parts[1]))))

\* name.NewDigest
NewDigest(s) == NewDigestParts(Split(s, "@"))

FirstOk(t, d) == IF t.ok THEN t ELSE IF d.ok THEN d ELSE BadRef

\* name.ParseReference: a tag if it parses as one, else a digest
ParseReference(s) == FirstOk(NewTag(s), NewDigest(s))

\* ----------------------------------------------------- images and labels
StackIDLabel == "io.buildpacks.stack.id"
BuildMetadataLabel == "io.buildpacks.build.metadata"
LayerMetadataLabel == "io.buildpacks.lifecycle.metadata"

Bionic == <<"io.buildpacks.stack.bionic">>
ZeroTime == "0001-01-01T00:00:00Z"
CreatedTime == "2020-01-01T00:00:00Z"

Buildpack1 == [ID |-> "test.id", Version |-> "1.2.3", Homepage |-> ""]
Buildpack2 == [ID |-> "other.id", Version |-> "0.1", Homepage |-> "https://other"]
BuildpackLists == {<<>>, <<Buildpack1>>, <<Buildpack1, Buildpack2>>}

RunImageReferences ==
    { <<"localhost", ":", "5000", "/", "node", "@", "sha256", ":", "0fd6">>,
      <<"localhost", ":", "5000", "/", "node", ":", "latest">>,
      <<"localhost", ":", "5000", "/", "node">>,
      <<>> }
StackRunImages ==
    { <<"gcr.io", ":", "443", "/", "run", ":", "full-cnb">>,
      <<"gcr.io", ":", "443", "/", "run", "@", "sha256", ":", "abc">>,
      <<"run">>,
      <<>> }
AppShapes == {"object", "list"}

\* a label of an image: absent, present but not decodable, or decodable
AbsentStackId == [present |-> FALSE, val |-> <<>>]
StackIdLabels == {AbsentStackId, [present |-> TRUE, val |-> Bionic]}
AbsentBuild == [present |-> FALSE, json |-> FALSE, buildpacks |-> <<>>]
BuildLabels ==
    {AbsentBuild, [present |-> TRUE, json |-> FALSE, buildpacks |-> <<>>]}
    \cup {[present |-> TRUE, json |-> TRUE, buildpacks |-> b] : b \in BuildpackLists}
AbsentLayer ==
    [present |-> FALSE, json |-> FALSE, app |-> "object", reference |-> <<>>, image |-> <<>>]
LayerLabels(shape) ==
    {AbsentLayer,
     [present |-> TRUE, json |-> FALSE, app |-> shape, reference |-> <<>>, image |-> <<>>]}
    \cup {[present |-> TRUE, json |-> TRUE, app |-> shape, reference |-> r, image |-> i] :
            r \in RunImageReferences, i \in StackRunImages}
CreatedAts == {[ok |-> TRUE, time |-> CreatedTime], [ok |-> FALSE, time |-> ZeroTime]}

Images(shape) ==
    [stackId : StackIdLabels, build : BuildLabels, layer : LayerLabels(shape),
     created : CreatedAts]

LabelOf(image, label) ==
    IF label = StackIDLabel THEN image.stackId
    ELSE IF label = BuildMetadataLabel THEN image.build
    ELSE image.layer

\* imagehelpers.GetStringLabel
GetStringLabel(image, label) ==
    IF LabelOf(image, label).present
    THEN [val |-> LabelOf(image, label).val, err |-> Nil]
    ELSE [val |-> EmptyStr, err |-> <<"could not find label", label>>]

\* decoding the build-metadata label into platform.BuildMetadata
DecodeBuildMetadata(l) ==
    IF l.json THEN [val |-> [Buildpacks |-> l.buildpacks], err |-> Nil]
    ELSE [val |-> [Buildpacks |-> <<>>], err |-> <<"unmarshal">>]

ZeroLayersMetadata ==
    [RunImage |-> [Reference |-> <<>>], Stack |-> [RunImage |-> [Image |-> <<>>]]]

\* a decoder whose struct declares App as a list of layers (lifecycle 0.6+ only)
DecodeLayerMetadataAppList(l) ==
    IF l.json /\ l.app = "list"
    THEN [val |-> [RunImage |-> [Reference |-> l.reference],
                   Stack |-> [RunImage |-> [Image |-> l.image]]],
          err |-> Nil]
    ELSE [val |-> ZeroLayersMetadata, err |-> <<"unmarshal">>]

\* decoding the layer-metadata label into appLayersMetadata, which declares
\* only runImage and stack: the app field is never decoded
DecodeLayerMetadata(l) ==
    IF l.json
    THEN [val |-> [RunImage |-> [Reference |-> l.reference],
                   Stack |-> [RunImage |-> [Image |-> l.image]]],
          err |-> Nil]
    ELSE [val |-> ZeroLayersMetadata, err |-> <<"unmarshal">>]

\* imagehelpers.GetLabel for the build-metadata label
GetBuildMetadataLabel(image) ==
    IF ~image.build.present
    THEN [val |-> [Buildpacks |-> <<>>], err |-> <<"could not find label", BuildMetadataLabel>>]
    ELSE DecodeBuildMetadata(image.build)

\* imagehelpers.GetLabel for the layer-metadata label
GetLayerMetadataLabel(image) ==
    IF ~image.layer.present
    THEN [val |-> ZeroLayersMetadata, err |-> <<"could not find label", LayerMetadataLabel>>]
    ELSE DecodeLayerMetadata(image.layer)

\* imagehelpers.GetCreatedAt
GetCreatedAt(image) ==
    IF image.created.ok THEN [val |-> image.created.time, err |-> Nil]
    ELSE [val |-> ZeroTime, err |-> <<"config file">>]

\* ------------------------------------------------------------- pkg/cnb
ZeroBuiltImage ==
    [Identifier |-> <<>>, CompletedAt |-> ZeroTime, BuildpackMetadata |-> <<>>,
     Stack |-> [RunImage |-> <<>>, ID |-> <<>>]]

Failed(err) == [img |-> ZeroBuiltImage, err |-> err]

\* readBuiltImage, lines 72-90: the two references and the result
BuiltImageOf(appImageId, stackId, buildMetadata, imageCreatedAt, runImageRef, baseImageRef) ==
    IF ~runImageRef.ok THEN Failed(<<"could not parse reference">>)
    ELSE IF ~baseImageRef.ok THEN Failed(<<"could not parse reference">>)
    ELSE [img |-> [Identifier |-> appImageId,
                   CompletedAt |-> imageCreatedAt.val,
                   BuildpackMetadata |-> buildMetadata.val.Buildpacks,
                   Stack |-> [RunImage |-> SprintfAt(baseImageRef.repo, runImageRef.ident),
                              ID |-> stackId.val]],
          err |-> Nil]

\* readBuiltImage, lines 50-70: the labels and the creation time
ReadLabels(appImageId, stackId, buildMetadata, layerMetadata, imageCreatedAt) ==
    IF stackId.err # Nil THEN [img |-> ZeroBuiltImage, err |-> Nil]
    ELSE IF buildMetadata.err # Nil THEN Failed(buildMetadata.err)
    ELSE IF layerMetadata.err # Nil THEN Failed(layerMetadata.err)
    ELSE IF imageCreatedAt.err # Nil THEN Failed(imageCreatedAt.err)
    ELSE BuiltImageOf(appImageId, stackId, buildMetadata, imageCreatedAt,
                      ParseReference(layerMetadata.val.RunImage.Reference),
                      ParseReference(layerMetadata.val.Stack.RunImage.Image))

readBuiltImage(appImage, appImageId) ==
    ReadLabels(appImageId,
               GetStringLabel(appImage, StackIDLabel),
               GetBuildMetadataLabel(appImage),
               GetLayerMetadataLabel(appImage),
               GetCreatedAt(appImage))

\* what ImageFetcher.Fetch returns: the image, its identifier, an error
FetchOk(image, id) == [image |-> image, id |-> id, err |-> Nil]

GetBuiltImage(fetched) ==
    IF fetched.err # Nil THEN Failed(Wrap(fetched.err, "unable to fetch app image"))
    ELSE readBuiltImage(fetched.image, fetched.id)

\* a retriever that hands back the identifier without looking at the error
GetCacheImageIgnoringError(fetched) == [id |-> fetched.id, err |-> Nil]

GetCacheImage(fetched) ==
    IF fetched.err # Nil
    THEN [id |-> EmptyStr, err |-> Wrap(fetched.err, "unable to fetch cache image")]
    ELSE [id |-> fetched.id, err |-> Nil]

\* -------------------------------------------------- cmd/completion: state
VARIABLES
    report,                  \* the decoded /var/report/report.toml
    cacheTag,                \* -cache-tag
    notaryV1URL,             \* -notary-v1-url
    cosignSecret,            \* what os.Stat finds at /var/build-secrets/cosign
    dockerCredentials,       \* -basic-docker, in flag order
    dockerCfgCredentials,    \* -dockercfg, in flag order
    dockerConfigCredentials, \* -dockerconfig, in flag order
    cosignAnnotations,       \* -cosign-annotations, in flag order
    cosignRepositories,      \* -cosign-repositories, in flag order
    cosignDockerMediaTypes,  \* -cosign-docker-media-types, in flag order
    pc,                      \* main's position
    builtImageRef,
    creds,                   \* the credential set, domain -> auth
    credIdx,                 \* number of docker config secrets appended
    cacheImageRef,
    builtImage,
    termMsg,                 \* the file at CompletionTerminationMessagePath
    calls,                   \* the calls main has made so far, in order
    fatalErr,                \* what log.Fatal was given
    testImage,               \* retriever test: the image under each app schema
    testResult               \* retriever test: what GetBuiltImage returned

flagVars == <<report, cacheTag, notaryV1URL, cosignSecret, dockerCredentials,
              dockerCfgCredentials, dockerConfigCredentials, cosignAnnotations,
              cosignRepositories, cosignDockerMediaTypes>>
mainVars == <<pc, builtImageRef, creds, credIdx, cacheImageRef, builtImage,
              termMsg, calls, fatalErr>>
testVars == <<testImage, testResult>>
vars == <<flagVars, mainVars, testVars>>

\* ------------------------------------------------------------- inputs
ReportTags == { <<"reg.io", "/", "app", ":", "latest">>, <<"reg.io", "/", "app", ":", "v2">> }
ReportDigest == <<"sha256", ":", "abc">>
UndecodableReport == [decodeOk |-> FALSE, Tags |-> <<>>, Digest |-> <<>>]
Reports ==
    {UndecodableReport}
    \cup {[decodeOk |-> TRUE, Tags |-> t, Digest |-> ReportDigest] : t \in SeqsUpTo(ReportTags, MaxTags)}

CacheTags == { <<>>, <<"reg.io", "/", "cache">> }
NotaryURLs == { <<>>, <<"https://notary.example.com">> }
StatResults == {"exists", "notexist", "permission"}

KV == <<"k", "=", "v">>
NoEq == <<"k">>
TwoEq == <<"k", "=", "v", "=", "w">>
OverrideFlags == { <<>>, <<KV>>, <<NoEq>>, <<KV, TwoEq>> }

BasicArgs == { <<"s1", "=", "gcr.io">>, <<"s2", "=", "gcr.io">>, <<"s1">> }
SecretNames == {"cfg1", "cfg2"}
\* the docker config secrets mounted under /var/build-secrets
SecretCreds(name) ==
    IF name = "cfg1" THEN [d \in {<<"gcr.io">>, <<"reg.io">>} |-> <<"cfg1">> \o d]
    ELSE [d \in {<<"gcr.io">>} |-> <<"cfg2">> \o d]

GoodImage ==
    [stackId |-> [present |-> TRUE, val |-> Bionic],
     build |-> [present |-> TRUE, json |-> TRUE, buildpacks |-> <<Buildpack1>>],
     layer |-> [present |-> TRUE, json |-> TRUE, app |-> "list",
                reference |-> <<"localhost", ":", "5000", "/", "node", "@", "sha256", ":", "0fd6">>,
                image |-> <<"gcr.io", ":", "443", "/", "run", ":", "full-cnb">>],
     created |-> [ok |-> TRUE, time |-> CreatedTime]]
\* what the registry may hold under a reference
RegistryImages ==
    {GoodImage,
     [GoodImage EXCEPT !.stackId = AbsentStackId],
     [GoodImage EXCEPT !.build = AbsentBuild],
     [GoodImage EXCEPT !.build.buildpacks = <<>>]}
ImageDigest == <<"sha256", ":", "0fd6">>

\* registry.Client.Fetch: the outcomes a fetch of ref can have
FetchOutcomes(ref) ==
    {[image |-> GoodImage, id |-> <<>>, err |-> <<"fetch failed">>]}
    \cup {FetchOk(i, SprintfAt(r.repo, ImageDigest)) :
            i \in RegistryImages, r \in {x \in {ParseReference(ref)} : x.ok}}

\* ------------------------------------------------ cmd/completion: helpers
EmptyMap == [k \in {} |-> <<>>]

Put(m, key, value) == [k \in DOMAIN m \cup {key} |-> IF k = key THEN value ELSE m[k]]

BadArg(arg) == <<"argument not formatted as -arg=key=value">> \o arg

RECURSIVE mapKeyValueArgsLaxFrom(_, _, _)
mapKeyValueArgsLaxFrom(args, i, overrides) ==
    IF i > Len(args) THEN [val |-> overrides, err |-> Nil]
    ELSE LET splitArg == Split(args[i], "=")
         IN IF Len(splitArg) < 2 THEN [val |-> EmptyMap, err |-> BadArg(args[i])]
            ELSE mapKeyValueArgsLaxFrom(args, i + 1, Put(overrides, splitArg[1], splitArg[2]))

\* a parser that only checks that a separator is there
mapKeyValueArgsLax(args) == mapKeyValueArgsLaxFrom(args, 1, EmptyMap)

RECURSIVE mapKeyValueArgsFrom(_, _, _)
mapKeyValueArgsFrom(args, i, overrides) ==
    IF i > Len(args) THEN [val |-> overrides, err |-> Nil]
    ELSE LET splitArg == Split(args[i], "=")
         IN IF Len(splitArg) # 2 THEN [val |-> EmptyMap, err |-> BadArg(args[i])]
            ELSE mapKeyValueArgsFrom(args, i + 1, Put(overrides, splitArg[1], splitArg[2]))

mapKeyValueArgs(args) == mapKeyValueArgsFrom(args, 1, EmptyMap)

\* os.IsNotExist without the negation
hasCosignInverted == cosignSecret = "notexist"

hasCosign == cosignSecret # "notexist"

\* builtImageRef built from the tag alone
BuiltImageRefTagOnly(r) == r.Tags[1]

BuiltImageRefOf(r) == SprintfAt(r.Tags[1], r.Digest)

buildMetadataFromBuiltImage(image) ==
    [i \in 1..Len(image.BuildpackMetadata) |->
        [Id |-> image.BuildpackMetadata[i].ID,
         Version |-> image.BuildpackMetadata[i].Version,
         Homepage |-> image.BuildpackMetadata[i].Homepage]]

BuildStatusMetadata(image) ==
    [BuildpackMetadata |-> buildMetadataFromBuiltImage(image),
     LatestImage |-> builtImageRef,
     LatestCacheImage |-> cacheImageRef,
     StackRunImage |-> image.Stack.RunImage,
     StackID |-> image.Stack.ID]

NoFile ==
    [written |-> FALSE, enc |-> "none",
     md |-> [BuildpackMetadata |-> <<>>, LatestImage |-> <<>>, LatestCacheImage |-> <<>>,
             StackRunImage |-> <<>>, StackID |-> <<>>]]
\* GzipMetadataCompressor.Compress
Compress(md) == [written |-> TRUE, enc |-> "gzip+base64", md |-> md]

\* dockercreds.DockerCreds.Append
AppendCreds(c, a) == [d \in DOMAIN c \cup DOMAIN a |-> IF d \in DOMAIN a THEN a[d] ELSE c[d]]

BasicAuth(secret) == <<"basic">> \o secret

RECURSIVE ParseBasicAuthSecretsFrom(_, _, _, _)
ParseBasicAuthSecretsFrom(flags, readable, i, acc) ==
    IF i > Len(flags) THEN [val |-> acc, err |-> Nil]
    ELSE LET parts == Split(flags[i], "=")
         IN IF Len(parts) # 2
            THEN [val |-> EmptyMap, err |-> <<"could not parse docker secret argument">> \o flags[i]]
            ELSE IF ~readable
            THEN [val |-> EmptyMap, err |-> <<"could not read secret">> \o parts[1]]
            ELSE ParseBasicAuthSecretsFrom(flags, readable, i + 1,
                                           Put(acc, parts[2], BasicAuth(parts[1])))

\* dockercreds.ParseBasicAuthSecrets
ParseBasicAuthSecrets(flags, readable) == ParseBasicAuthSecretsFrom(flags, readable, 1, EmptyMap)

\* the docker config secrets in the order a later flag category is read first
DockerConfigSecretArgsSwapped == dockerConfigCredentials \o dockerCfgCredentials

\* append(dockerCfgCredentials, dockerConfigCredentials...)
DockerConfigSecretArgs == dockerCfgCredentials \o dockerConfigCredentials

CosignError == <<"signing failed">>
NotaryError == <<"notary failed">>

\* a dispatcher that tolerates a failing content-signing backend
CosignThenTolerant(err) == [pc |-> "notary", err |-> Nil]

\* a dispatcher that stops after the content-signing backend
CosignThenStop(err) ==
    IF err # Nil THEN [pc |-> "fatal", err |-> Wrap(err, "cosign sign")]
    ELSE [pc |-> "done", err |-> Nil]

\* signImage after cosignSigner.Sign returned err
CosignThen(err) ==
    IF err # Nil THEN [pc |-> "fatal", err |-> Wrap(err, "cosign sign")]
    ELSE [pc |-> "notary", err |-> Nil]

Call(op, arg, err) == [op |-> op, arg |-> arg, err |-> err]

\* ------------------------------------------------ cmd/completion: main
Fatal(err) == pc' = "fatal" /\ fatalErr' = err

\* main, lines 66-76: decode the report, take its first tag
DecodeReport ==
    /\ pc = "start"
    /\ IF ~report.decodeOk
       THEN Fatal(<<"toml decode">>) /\ UNCHANGED builtImageRef
       ELSE IF Len(report.Tags) = 0
       THEN Fatal(<<"no image found in report">>) /\ UNCHANGED builtImageRef
       ELSE /\ builtImageRef' = BuiltImageRefOf(report)
            /\ pc' = "k8schain"
            /\ UNCHANGED fatalErr
    /\ UNCHANGED <<creds, credIdx, cacheImageRef, builtImage, termMsg, calls>>
    /\ UNCHANGED <<flagVars, testVars>>

\* main, lines 78-82: k8schain.New
LoadKeychain ==
    /\ pc = "k8schain"
    /\ \E err \in {Nil, <<"k8schain">>} :
        /\ calls' = Append(calls, Call("k8schain", <<>>, err))
        /\ IF err # Nil THEN Fatal(err) ELSE pc' = "basic" /\ UNCHANGED fatalErr
    /\ UNCHANGED <<builtImageRef, creds, credIdx, cacheImageRef, builtImage, termMsg>>
    /\ UNCHANGED <<flagVars, testVars>>

\* main, lines 84-87: the basic-auth secrets
LoadBasicAuth ==
    /\ pc = "basic"
    /\ \E readable \in BOOLEAN :
        \E r \in {ParseBasicAuthSecrets(dockerCredentials, readable)} :
           /\ calls' = Append(calls, Call("load-creds", <<"basic-docker">>, r.err))
           /\ IF r.err # Nil
              THEN Fatal(r.err) /\ UNCHANGED <<creds, credIdx>>
              ELSE /\ creds' = r.val
                   /\ credIdx' = 0
                   /\ pc' = "dockercfg"
                   /\ UNCHANGED fatalErr
    /\ UNCHANGED <<builtImageRef, cacheImageRef, builtImage, termMsg>>
    /\ UNCHANGED <<flagVars, testVars>>

\* main, lines 89-105: one turn of the loop over the docker config secrets
LoadDockerConfigSecret ==
    /\ pc = "dockercfg"
    /\ credIdx < Len(DockerConfigSecretArgs)
    /\ \E c \in {DockerConfigSecretArgs[credIdx + 1]} :
          \E err \in {Nil, <<"could not parse docker config secret">>} :
            /\ calls' = Append(calls, Call("load-creds", <<c>>, err))
            /\ IF err # Nil
               THEN Fatal(err) /\ UNCHANGED <<creds, credIdx>>
               ELSE /\ creds' = AppendCreds(creds, SecretCreds(c))
                    /\ credIdx' = credIdx + 1
                    /\ UNCHANGED <<pc, fatalErr>>
    /\ UNCHANGED <<builtImageRef, cacheImageRef, builtImage, termMsg>>
    /\ UNCHANGED <<flagVars, testVars>>

\* main, lines 107-117: write the merged credentials to ~/.docker/config.json
SaveCreds ==
    /\ pc = "dockercfg"
    /\ credIdx = Len(DockerConfigSecretArgs)
    /\ \E outcome \in {"ok", "nohome", "savefail"} :
        IF outcome = "nohome"
        THEN /\ Fatal(Wrap(<<"$HOME is not defined">>, "error obtaining home directory"))
             /\ UNCHANGED calls
        ELSE IF outcome = "savefail"
        THEN /\ Fatal(Wrap(<<"permission denied">>, "error writing docker creds"))
             /\ calls' = Append(calls, Call("save-creds", <<>>, <<"permission denied">>))
        ELSE /\ pc' = "cache"
             /\ calls' = Append(calls, Call("save-creds", <<>>, Nil))
             /\ UNCHANGED fatalErr
    /\ UNCHANGED <<builtImageRef, creds, credIdx, cacheImageRef, builtImage, termMsg>>
    /\ UNCHANGED <<flagVars, testVars>>

\* main, lines 124-130: the cache image, when a cache tag is given
FetchCacheImage ==
    /\ pc = "cache"
    /\ IF cacheTag = <<>>
       THEN /\ cacheImageRef' = <<>>
            /\ pc' = "built"
            /\ UNCHANGED <<calls, fatalErr>>
       ELSE \E fetched \in FetchOutcomes(cacheTag) :
            \E r \in {GetCacheImage(fetched)} :
               /\ calls' = Append(calls, Call("fetch-cache", cacheTag, fetched.err))
               /\ IF r.err # Nil
                  THEN Fatal(r.err) /\ UNCHANGED cacheImageRef
                  ELSE /\ cacheImageRef' = r.id
                       /\ pc' = "built"
                       /\ UNCHANGED fatalErr
    /\ UNCHANGED <<builtImageRef, creds, credIdx, builtImage, termMsg>>
    /\ UNCHANGED <<flagVars, testVars>>

\* main, lines 132-135: the built image's metadata
FetchBuiltImage ==
    /\ pc = "built"
    /\ \E fetched \in FetchOutcomes(builtImageRef) :
        \E r \in {GetBuiltImage(fetched)} :
           /\ calls' = calls \o <<Call("fetch-built", builtImageRef, fetched.err)>>
                        \o (IF fetched.err = Nil
                            THEN <<Call("read-built", fetched.id, r.err)>> ELSE <<>>)
           /\ IF r.err # Nil
              THEN Fatal(r.err) /\ UNCHANGED builtImage
              ELSE /\ builtImage' = r.img
                   /\ pc' = "write"
                   /\ UNCHANGED fatalErr
    /\ UNCHANGED <<builtImageRef, creds, credIdx, cacheImageRef, termMsg>>
    /\ UNCHANGED <<flagVars, testVars>>

\* main, lines 137-159: assemble, compress and write the completion record,
\* then decide whether to sign
WriteRecord ==
    /\ pc = "write"
    /\ \E outcome \in {"ok", "compressfail", "writefail"} :
        IF outcome = "compressfail"
        THEN Fatal(<<"compress">>) /\ UNCHANGED <<termMsg, calls>>
        ELSE IF outcome = "writefail"
        THEN /\ Fatal(<<"write failed">>)
             /\ calls' = Append(calls, Call("write-record", <<>>, <<"write failed">>))
             /\ UNCHANGED termMsg
        ELSE /\ termMsg' = Compress(BuildStatusMetadata(builtImage))
             /\ calls' = Append(calls, Call("write-record", <<>>, Nil))
             /\ pc' = IF hasCosign \/ notaryV1URL # <<>> THEN "sign" ELSE "done"
             /\ UNCHANGED fatalErr
    /\ UNCHANGED <<builtImageRef, creds, credIdx, cacheImageRef, builtImage>>
    /\ UNCHANGED <<flagVars, testVars>>

\* signImage, lines 177-204: the content-signing backend
SignImageCosign ==
    /\ pc = "sign"
    /\ IF ~hasCosign
       THEN pc' = "notary" /\ UNCHANGED <<calls, fatalErr>>
       ELSE \E annotations \in {mapKeyValueArgs(cosignAnnotations)},
               repositories \in {mapKeyValueArgs(cosignRepositories)},
               mediaTypes \in {mapKeyValueArgs(cosignDockerMediaTypes)} :
               IF annotations.err # Nil THEN Fatal(annotations.err) /\ UNCHANGED calls
               ELSE IF repositories.err # Nil THEN Fatal(repositories.err) /\ UNCHANGED calls
               ELSE IF mediaTypes.err # Nil THEN Fatal(mediaTypes.err) /\ UNCHANGED calls
               ELSE \E err \in {Nil, CosignError} :
                    /\ calls' = Append(calls, Call("cosign", report.Tags[1], err))
                    /\ pc' = CosignThen(err).pc
                    /\ fatalErr' = CosignThen(err).err
    /\ UNCHANGED <<builtImageRef, creds, credIdx, cacheImageRef, builtImage, termMsg>>
    /\ UNCHANGED <<flagVars, testVars>>

\* signImage, lines 206-216, and main, line 161: the notarization backend
SignImageNotary ==
    /\ pc = "notary"
    /\ IF notaryV1URL = <<>>
       THEN pc' = "done" /\ UNCHANGED <<calls, fatalErr>>
       ELSE \E err \in {Nil, NotaryError} :
            /\ calls' = Append(calls, Call("notary", notaryV1URL, err))
            /\ IF err # Nil THEN Fatal(err) ELSE pc' = "done" /\ UNCHANGED fatalErr
    /\ UNCHANGED <<builtImageRef, creds, credIdx, cacheImageRef, builtImage, termMsg>>
    /\ UNCHANGED <<flagVars, testVars>>

Next ==
    \/ DecodeReport
    \/ LoadKeychain
    \/ LoadBasicAuth
    \/ LoadDockerConfigSecret
    \/ SaveCreds
    \/ FetchCacheImage
    \/ FetchBuiltImage
    \/ WriteRecord
    \/ SignImageCosign
    \/ SignImageNotary

\* ---------------------------------------------- retriever test harness
TestImageId == <<"reg.io", "/", "appimage", "/", "name", "@", "sha256", ":", "abc">>
NotRun == [done |-> FALSE, img |-> ZeroBuiltImage, err |-> Nil]

\* the same image with its layer-metadata app field in the given schema
WithAppShape(image, shape) ==
    IF image.layer.present /\ image.layer.json
    THEN [image EXCEPT !.layer.app = shape]
    ELSE image

\* cnb_metadata_test.go: AddImage on the fake client, then GetBuiltImage
TestGetBuiltImage(shape) ==
    /\ pc = "test"
    /\ ~testResult[shape].done
    /\ \E r \in {GetBuiltImage(FetchOk(testImage[shape], TestImageId))} :
          testResult' = [testResult EXCEPT ![shape] = [done |-> TRUE, img |-> r.img, err |-> r.err]]
    /\ UNCHANGED <<flagVars, mainVars, testImage>>

NextRetriever == \E shape \in AppShapes : TestGetBuiltImage(shape)

\* ------------------------------------------------------ specifications
InitRun ==
    /\ builtImageRef = <<>>
    /\ creds = EmptyMap
    /\ credIdx = 0
    /\ cacheImageRef = <<>>
    /\ builtImage = ZeroBuiltImage
    /\ termMsg = NoFile
    /\ calls = <<>>
    /\ fatalErr = Nil

InitNoTest ==
    /\ testImage = [s \in AppShapes |-> WithAppShape(GoodImage, s)]
    /\ testResult = [s \in AppShapes |-> NotRun]

\* a run of main under every report, cache tag, notary URL, cosign secret and
\* override flags
Init ==
    /\ pc = "start"
    /\ report \in Reports
    /\ cacheTag \in CacheTags
    /\ notaryV1URL \in NotaryURLs
    /\ cosignSecret \in StatResults
    /\ dockerCredentials = << <<"s1", "=", "gcr.io">> >>
    /\ dockerCfgCredentials = <<"cfg1">>
    /\ dockerConfigCredentials = <<"cfg2">>
    /\ cosignAnnotations \in OverrideFlags
    /\ cosignRepositories \in OverrideFlags
    /\ cosignDockerMediaTypes \in OverrideFlags
    /\ InitRun
    /\ InitNoTest

Spec == Init /\ [][Next]_vars

\* a run of main under every choice of credential flags
InitCreds ==
    /\ pc = "start"
    /\ report = [decodeOk |-> TRUE, Tags |-> << <<"reg.io", "/", "app", ":", "latest">> >>,
                 Digest |-> ReportDigest]
    /\ cacheTag \in CacheTags
    /\ notaryV1URL \in NotaryURLs \ {<<>>}
    /\ cosignSecret = "exists"
    /\ dockerCredentials \in SeqsUpTo(BasicArgs, MaxCredFlags)
    /\ dockerCfgCredentials \in SeqsUpTo(SecretNames, MaxCredFlags)
    /\ dockerConfigCredentials \in SeqsUpTo(SecretNames, MaxCredFlags)
    /\ cosignAnnotations = <<KV>>
    /\ cosignRepositories = <<>>
    /\ cosignDockerMediaTypes = <<>>
    /\ InitRun
    /\ InitNoTest

SpecCreds == InitCreds /\ [][Next]_vars

\* the retriever's test on every image, under both app schemas
InitRetriever ==
    /\ pc = "test"
    /\ report = UndecodableReport
    /\ cacheTag = <<>>
    /\ notaryV1URL = <<>>
    /\ cosignSecret = "notexist"
    /\ dockerCredentials = <<>>
    /\ dockerCfgCredentials = <<>>
    /\ dockerConfigCredentials = <<>>
    /\ cosignAnnotations = <<>>
    /\ cosignRepositories = <<>>
    /\ cosignDockerMediaTypes = <<>>
    /\ InitRun
    /\ \E image \in Images("object") :
        testImage = [s \in AppShapes |-> WithAppShape(image, s)]
    /\ testResult = [s \in AppShapes |-> NotRun]

SpecRetriever == InitRetriever /\ [][NextRetriever]_vars

\* ------------------------------------------------------------- properties
CallsOf(ops) == {i \in 1..Len(calls) : calls[i].op \in ops}
SignOps == {"cosign", "notary"}
RecordWritten == \E i \in CallsOf({"write-record"}) : calls[i].err = Nil
Malformed(arg) == Cardinality({i \in 1..Len(arg) : arg[i] = "="}) # 1
OverrideArgs == cosignAnnotations \o cosignRepositories \o cosignDockerMediaTypes
MalformedSupplied == \E i \in 1..Len(OverrideArgs) : Malformed(OverrideArgs[i])
FirstMalformed ==
    OverrideArgs[CHOOSE i \in 1..Len(OverrideArgs) :
                    /\ Malformed(OverrideArgs[i])
                    /\ \A j \in 1..(i - 1) : ~Malformed(OverrideArgs[j])]
ExpectedRef == report.Tags[1] \o <<"@">> \o report.Digest

\* C1: GetBuiltImage returns an error whenever one of the labels stack-id,
\* build-metadata, layer-metadata is absent from the image, and none when all
\* three are present and decodable, whatever the schema of the app field.
C1_MissingLabelIsError ==
    \A s \in AppShapes :
        testResult[s].done =>
            /\ (\/ ~testImage[s].stackId.present
                \/ ~testImage[s].build.present
                \/ ~testImage[s].layer.present) => testResult[s].err # Nil
            /\ (/\ testImage[s].stackId.present
                /\ testImage[s].build.present /\ testImage[s].build.json
                /\ testImage[s].layer.present /\ testImage[s].layer.json
                /\ testImage[s].created.ok
                /\ ParseReference(testImage[s].layer.reference).ok
                /\ ParseReference(testImage[s].layer.image).ok) => testResult[s].err = Nil

\* C2: once the cosign backend's Sign has returned an error, the notarization
\* backend has not been and is never invoked, cosign is not retried, and the
\* run has ended with the backend's error wrapped in "cosign sign".
C2_CosignFailureStopsDispatch ==
    (\E i \in CallsOf({"cosign"}) : calls[i].err # Nil) =>
        /\ cosignSecret # "notexist"
        /\ CallsOf({"notary"}) = {}
        /\ Cardinality(CallsOf({"cosign"})) = 1
        /\ pc = "fatal"
        /\ fatalErr = <<"cosign sign">> \o calls[Len(calls)].err
        /\ calls[Len(calls)].op = "cosign"
C2_Witness ==
    /\ notaryV1URL # <<>>
    /\ \E i \in CallsOf({"cosign"}) : calls[i].err # Nil

\* C3 as stated: with a malformed override argument among the flags, the run
\* is rejected before any registry fetch and before any signing backend call.
C3_MalformedRejectedBeforeNetwork ==
    MalformedSupplied =>
        /\ CallsOf({"fetch-cache", "fetch-built"} \cup SignOps) = {}
        /\ pc # "done"

\* C3 as amended: when the cosign secret is found, a malformed override
\* argument ends the run, after the fetches and the record write, with the
\* error of the first malformed argument and before any signing backend call;
\* the arguments are rejected nowhere else, and never without the secret.
C3_MalformedRejectedBeforeSigning ==
    /\ (MalformedSupplied /\ cosignSecret # "notexist") =>
          /\ CallsOf(SignOps) = {}
          /\ pc \notin {"notary", "done"}
          /\ (RecordWritten /\ pc = "fatal") =>
                fatalErr = <<"argument not formatted as -arg=key=value">> \o FirstMalformed
    /\ (Len(fatalErr) > 0 /\ fatalErr[1] = "argument not formatted as -arg=key=value") =>
          /\ MalformedSupplied
          /\ cosignSecret # "notexist"
          /\ RecordWritten
          /\ CallsOf({"fetch-built"}) # {}
C3_Witness ==
    /\ MalformedSupplied
    /\ cosignSecret # "notexist"
    /\ RecordWritten
    /\ CallsOf({"fetch-built"}) # {}
    /\ pc = "fatal"
    /\ fatalErr = <<"argument not formatted as -arg=key=value">> \o FirstMalformed

\* C4: whenever readBuiltImage succeeds on an image that carries a stack id,
\* Stack.RunImage is <repository of the legacy reference>@<digest>: what
\* follows the "@" is a digest, never a tag.
C4_RunImageIsRepositoryAtDigest ==
    \A s \in AppShapes :
        (testResult[s].done /\ testResult[s].err = Nil /\ testImage[s].stackId.present) =>
            \E parts \in {Split(testResult[s].img.Stack.RunImage, "@")} :
                /\ Len(parts) = 2
                /\ parts[1] = ParseReference(testImage[s].layer.image).repo
                /\ IsDigest(parts[2])

\* C5: with no cosign secret and no notary URL, signImage is not entered, no
\* signing backend is invoked, and once the record is written the run ends in
\* success.
C5_NoBackendNoSigning ==
    (cosignSecret = "notexist" /\ notaryV1URL = <<>>) =>
        /\ CallsOf(SignOps) = {}
        /\ pc \notin {"sign", "notary"}
        /\ RecordWritten => (pc = "done" /\ fatalErr = Nil)
C5_Witness ==
    /\ cosignSecret = "notexist"
    /\ notaryV1URL = <<>>
    /\ RecordWritten
    /\ pc = "done"

\* C6: with both backends active and cosign's Sign successful, each backend is
\* invoked at most once, the notarization backend only after cosign's Sign
\* returned success, and exactly once by the end of the run.
C6_CosignThenNotaryOnce ==
    /\ Cardinality(CallsOf({"cosign"})) <= 1
    /\ Cardinality(CallsOf({"notary"})) <= 1
    /\ (cosignSecret # "notexist" /\ notaryV1URL # <<>>) =>
          /\ \A n \in CallsOf({"notary"}) :
                \E c \in CallsOf({"cosign"}) : c < n /\ calls[c].err = Nil
          /\ ((\E c \in CallsOf({"cosign"}) : calls[c].err = Nil) /\ pc \in {"done", "fatal"})
                => Cardinality(CallsOf({"notary"})) = 1
C6_Witness ==
    /\ cosignSecret # "notexist"
    /\ notaryV1URL # <<>>
    /\ pc = "done"
    /\ \E c \in CallsOf({"cosign"}), n \in CallsOf({"notary"}) : c < n /\ calls[c].err = Nil

\* the labels, creation time and references GetBuiltImage needs are all there
WellFormed(image) ==
    /\ image.stackId.present
    /\ image.build.present /\ image.build.json
    /\ image.layer.present /\ image.layer.json
    /\ image.created.ok
    /\ image.layer.reference \in
         { <<"localhost", ":", "5000", "/", "node", "@", "sha256", ":", "0fd6">>,
           <<"localhost", ":", "5000", "/", "node", ":", "latest">>,
           <<"localhost", ":", "5000", "/", "node">> }
    /\ image.layer.image # <<>>

\* C7: two images that differ only in the schema of layer-metadata's app field
\* give the same GetBuiltImage result; when the labels are all present and
\* well-formed neither gives an error, the buildpacks and the stack id are the
\* labels', Identifier is the fetcher's and CompletedAt the creation time.
C7_AppSchemaEquivalence ==
    (testResult["object"].done /\ testResult["list"].done) =>
        /\ testResult["object"] = testResult["list"]
        /\ WellFormed(testImage["object"]) =>
              \A s \in AppShapes :
                 /\ testResult[s].err = Nil
                 /\ testResult[s].img.Identifier = TestImageId
                 /\ testResult[s].img.CompletedAt = testImage[s].created.time
                 /\ testResult[s].img.BuildpackMetadata = testImage[s].build.buildpacks
                 /\ testResult[s].img.Stack.ID = testImage[s].stackId.val
C7_Witness ==
    /\ testResult["object"].done /\ testResult["list"].done
    /\ WellFormed(testImage["object"])
    /\ testImage["object"].layer.app = "object"
    /\ testImage["list"].layer.app = "list"
    /\ Len(testResult["list"].img.BuildpackMetadata) = 2

\* the credential sources in the order of the claim: basic-auth flags, then
\* dockercfg flags, then dockerconfig flags, each as the entries it supplies
ClaimedSources ==
    [i \in 1..Len(dockerCredentials) |->
        [d \in {<<dockerCredentials[i][3]>>} |-> <<"basic", dockerCredentials[i][1]>>]]
    \o [i \in 1..Len(dockerCfgCredentials) |-> SecretCreds(dockerCfgCredentials[i])]
    \o [i \in 1..Len(dockerConfigCredentials) |-> SecretCreds(dockerConfigCredentials[i])]
LastWriter(srcs) ==
    [d \in UNION {DOMAIN srcs[i] : i \in 1..Len(srcs)} |->
        srcs[CHOOSE i \in 1..Len(srcs) :
                /\ d \in DOMAIN srcs[i]
                /\ \A j \in (i + 1)..Len(srcs) : d \notin DOMAIN srcs[j]][d]]
BasicLoaded ==
    \E i \in CallsOf({"load-creds"}) : calls[i].arg = <<"basic-docker">> /\ calls[i].err = Nil

\* C8: after the basic-auth secrets and any number of docker config secrets
\* have been merged, the credential set holds, for each domain, the entry of
\* the last source merged so far that supplies it, the sources taken in the
\* order basic-auth, dockercfg, dockerconfig, each in flag order.
C8_LastSourceWins ==
    BasicLoaded =>
        creds = LastWriter(SubSeq(ClaimedSources, 1, Len(dockerCredentials) + credIdx))
C8_Witness ==
    /\ pc = "cache"
    /\ dockerCredentials = << <<"s1", "=", "gcr.io">>, <<"s2", "=", "gcr.io">> >>
    /\ dockerCfgCredentials = <<"cfg2", "cfg1">>
    /\ dockerConfigCredentials = <<"cfg2">>
    /\ creds[<<"gcr.io">>] = <<"cfg2", "gcr.io">>
    /\ creds[<<"reg.io">>] = <<"cfg1", "reg.io">>

\* C9: the built-image reference is <first tag>@<digest>; it is what the
\* fetcher is given for the built image and the record's LatestImage; a report
\* without tags ends the run with "no image found in report" before any call.
C9_BuiltImageRef ==
    /\ (report.decodeOk /\ Len(report.Tags) = 0) =>
          /\ calls = <<>>
          /\ ~termMsg.written
          /\ pc \in {"start", "fatal"}
          /\ pc = "fatal" => fatalErr = <<"no image found in report">>
    /\ pc \notin {"start", "fatal"} => builtImageRef = ExpectedRef
    /\ \A i \in CallsOf({"fetch-built"}) : calls[i].arg = ExpectedRef
    /\ termMsg.written => termMsg.md.LatestImage = ExpectedRef
C9_Witness ==
    /\ Len(report.Tags) = 2
    /\ report.Tags[1] # report.Tags[2]
    /\ termMsg.written
    /\ termMsg.md.LatestImage = report.Tags[1] \o <<"@">> \o report.Digest
    /\ CallsOf({"fetch-built"}) # {}

\* C10: the record is written at most once, only after the credential save,
\* the cache fetch (made iff a cache tag is given, before the built-image
\* fetch) and the built-image fetch have succeeded in that order; no signing
\* backend is invoked before the record is written; a failed step is the last
\* call of the run, and an earlier failure leaves no record and no signing.
C10_RecordAfterRetrieval ==
    /\ Cardinality(CallsOf({"write-record"})) <= 1
    /\ termMsg.written <=> RecordWritten
    /\ \A w \in CallsOf({"write-record"}) :
          \E sv \in CallsOf({"save-creds"}), b \in CallsOf({"fetch-built"}),
             rd \in CallsOf({"read-built"}) :
             /\ sv < b /\ b < rd /\ rd < w
             /\ calls[sv].err = Nil /\ calls[b].err = Nil /\ calls[rd].err = Nil
             /\ cacheTag # <<>> =>
                   \E c \in CallsOf({"fetch-cache"}) :
                      sv < c /\ c < b /\ calls[c].err = Nil /\ calls[c].arg = cacheTag
    /\ cacheTag = <<>> => CallsOf({"fetch-cache"}) = {}
    /\ \A g \in CallsOf(SignOps) :
          \E w \in CallsOf({"write-record"}) : w < g /\ calls[w].err = Nil
    /\ \A i \in 1..Len(calls) :
          calls[i].err # Nil => (i = Len(calls) /\ pc = "fatal")
    /\ (pc = "fatal" /\ ~RecordWritten) => (~termMsg.written /\ CallsOf(SignOps) = {})
C10_Witness ==
    /\ cacheTag # <<>>
    /\ termMsg.written
    /\ CallsOf({"notary"}) # {}
    /\ CallsOf({"cosign"}) # {}

====
